---- MODULE Spec2Model ----
(***************************************************************************)
(* Queue handling of the Thai Video Downloader GUI (gui/src/App.tsx).      *)
(*                                                                         *)
(* The React component keeps a copy of the download queue (queue) and      *)
(* drives the backend through invoke() calls; the backend answers each     *)
(* call asynchronously and pushes queue-progress events.  The model keeps  *)
(* the component's state, the calls and answers in flight, and the         *)
(* backend's own list.  The backend (gui/src-tauri/src/lib.rs) is not      *)
(* part of the sources at hand: its commands follow section 4.4 of the     *)
(* specification (the QueueManager state machine).                         *)
(***************************************************************************)
EXTENDS Integers, Sequences, FiniteSets, TLC

\* ------------------------------------------------------------------ bounds
\* Ids the backend hands out, in this order (an id is never reused).
Ids == <<"A", "B">>
\* queue-progress events emitted and not yet delivered.
MaxEvents == 2
\* queue_get_items answers not yet delivered.
MaxSnaps == 1
\* Command handlers (other than processQueue) awaiting their invoke().
MaxCalls == 1
\* processQueue runs awaiting a queue_start_download.
MaxRuns == 1
\* Status changes one item goes through, its creation included.
MaxVer == 4
\* Status changes of all items together, their creations included.
MaxChanges == 6
\* Events, answers, handlers and runs in flight together.
MaxInFlight == 3
\* checkClipboard calls awaiting the clipboard.
MaxReads == 1
\* Ctrl+V timers not yet fired.
MaxTimers == 1
\* The clock's last tick, in milliseconds.
MaxNow == 3000
\* The "Max Concurrent Downloads" choices explored (the select offers 1..5).
ConcurrencyChoices == {1, 2}

NULL == "null"
NoCall == [cmd |-> "none"]
\* addLog(type, ...) of addToQueue, which issues no command.
Logged(type, message) == [cmd |-> "none", log |-> type, message |-> message]
\* videoInfo before a fetch and after the form is cleared (null).
NoVideoInfo == [url |-> NULL, title |-> <<>>]

IdSet == {Ids[i] : i \in DOMAIN Ids}

VARIABLES
    backend,            \* backend: the QueueManager's list of items, in queue order
    ver,                \* backend: per id, the number of statuses it has had (0: not created)
    events,             \* queue-progress events in flight, oldest first
    snaps,              \* queue_get_items answers in flight
    queue,              \* App: const [queue, setQueue]
    shown,              \* per id, which backend status the App last took over, and from what
    isProcessingQueue,  \* App: const [isProcessingQueue, setIsProcessingQueue]
    settings,           \* App: const [settings, setSettings]
    url,                \* App: const [url, setUrl]
    videoInfo,          \* App: const [videoInfo, setVideoInfo]
    filename,           \* App: const [filename, setFilename]
    isFetchingInfo,     \* App: const [isFetchingInfo, setIsFetchingInfo]
    calls,              \* command handlers suspended at their await invoke(...)
    runs,               \* processQueue runs suspended at await invoke("queue_start_download")
    sent,               \* the command the last step issued, if any (or addToQueue's error line)
    isDownloading,      \* App: const [isDownloading, setIsDownloading]
    status,             \* App: const [status, setStatus]
    progress,           \* App: const [progress, setProgress]
    downloadSpeed,      \* App: const [downloadSpeed, setDownloadSpeed], bytes per second
    downloadedBytes,    \* App: const [downloadedBytes, setDownloadedBytes]
    totalBytes,         \* App: const [totalBytes, setTotalBytes]
    eta,                \* App: const [eta, setEta], seconds remaining
    lastProgressUpdate, \* App: lastProgressUpdate.current
    now,                \* Date.now(), in milliseconds
    task,               \* backend: the transfer download_video is running
    reads,              \* number of checkClipboard calls suspended at readText()
    timers              \* setTimeout(() => checkClipboard(), 100) not yet fired

\* The state of the download tab's transfer display and of the clipboard check.
Tab == <<isDownloading, status, progress, downloadSpeed, downloadedBytes, totalBytes,
         eta, lastProgressUpdate, now, task, reads, timers>>

vars == <<backend, ver, events, snaps, queue, shown, isProcessingQueue, settings,
          url, videoInfo, filename, isFetchingInfo, calls, runs, sent, Tab>>

Min(a, b) == IF a < b THEN a ELSE b

\* ------------------------------------------------------------ list helpers
HasItem(q, id) == \E i \in DOMAIN q : q[i].id = id

IndexOf(q, id) == CHOOSE i \in DOMAIN q : q[i].id = id

StatusIn(q, id) == IF HasItem(q, id) THEN q[IndexOf(q, id)].status ELSE "absent"

ItemOf(q, id) == q[IndexOf(q, id)]

IdsOf(q) == [i \in DOMAIN q |-> q[i].id]

Take(s, n) == IF n <= 0 THEN <<>> ELSE SubSeq(s, 1, Min(n, Len(s)))

Swap(q, i, j) == [k \in DOMAIN q |-> IF k = i THEN q[j] ELSE IF k = j THEN q[i] ELSE q[k]]

\* ------------------------------------------------------------ the backend
\* A queue item as queue_get_items returns it (interface QueueItem); the
\* fields that never change after queue_add (url, title, ...) are left out.
NewItem(id) ==
    [id |-> id, status |-> "Pending", progress |-> 0, speed |-> "", eta |-> "",
     error |-> NULL, file_path |-> NULL]

\* The payload of a queue-progress event (interface QueueProgress), with the
\* number of the status it reports.
EventOf(it, n) ==
    [id |-> it.id, status |-> it.status, progress |-> it.progress, speed |-> it.speed,
     eta |-> it.eta, file_path |-> it.file_path, ver |-> n]

\* The answer to queue_get_items: the list, with the number of each status in it.
Snapshot(b, v) == [items |-> b, ver |-> v]

\* The item after the transition to status st.
Turn(it, st) ==
    CASE st = "Downloading" -> [it EXCEPT !.status = st, !.speed = "1.0 MB/s", !.eta = "0:10"]
      [] st = "Paused"      -> [it EXCEPT !.status = st, !.speed = "", !.eta = ""]
      [] st = "Completed"   -> [it EXCEPT !.status = st, !.progress = 100, !.speed = "",
                                         !.eta = "", !.file_path = "out.mp4"]
      [] st = "Failed"      -> [it EXCEPT !.status = st, !.speed = "", !.eta = "",
                                         !.error = "SegmentFetchExhausted"]
      [] st = "Cancelled"   -> [it EXCEPT !.status = st, !.speed = "", !.eta = ""]
      [] st = "Pending"     -> [it EXCEPT !.status = st, !.progress = 0]

\* What a command leaves behind: its outcome, the list, the status numbers and
\* the events it emitted.
Reply(ok, b, v, ev) == [ok |-> ok, b |-> b, v |-> v, ev |-> ev]

Refused(b, v) == Reply(FALSE, b, v, <<>>)

\* A status transition of item id: every one is reported by an event.
Change(b, v, id, st) ==
    LET it == Turn(ItemOf(b, id), st)
        v2 == [v EXCEPT ![id] = @ + 1]
    IN  Reply(TRUE, [i \in DOMAIN b |-> IF b[i].id = id THEN it ELSE b[i]], v2,
              <<EventOf(it, v2[id])>>)

\* The edges of the state machine of section 4.4.
Edges ==
    {<<"Pending", "Downloading">>, <<"Downloading", "Completed">>,
     <<"Downloading", "Failed">>, <<"Downloading", "Cancelled">>,
     <<"Downloading", "Paused">>, <<"Paused", "Downloading">>,
     <<"Paused", "Cancelled">>, <<"Failed", "Pending">>}

FreshIds(v) == {i \in DOMAIN Ids : v[Ids[i]] = 0}

\* queue_add: a new Pending item at the end of the list, under a new id.
QueueAdd(b, v) ==
    LET i == CHOOSE k \in FreshIds(v) : \A j \in FreshIds(v) : k <= j
    IN  Reply(TRUE, Append(b, NewItem(Ids[i])), [v EXCEPT ![Ids[i]] = 1], <<>>)

\* queue_start_download: admits a Pending item.
QueueStartDownload(b, v, id) ==
    IF StatusIn(b, id) = "Pending" THEN Change(b, v, id, "Downloading") ELSE Refused(b, v)

\* queue_pause: Downloading -> Paused.
QueuePause(b, v, id) ==
    IF StatusIn(b, id) = "Downloading" THEN Change(b, v, id, "Paused") ELSE Refused(b, v)

\* queue_resume: Paused -> Downloading, and the explicit retry Failed -> Pending.
QueueResume(b, v, id) ==
    CASE StatusIn(b, id) = "Paused" -> Change(b, v, id, "Downloading")
      [] StatusIn(b, id) = "Failed" -> Change(b, v, id, "Pending")
      [] OTHER -> Refused(b, v)

\* queue_cancel: Downloading -> Cancelled and Paused -> Cancelled.
QueueCancel(b, v, id) ==
    IF StatusIn(b, id) \in {"Downloading", "Paused"}
    THEN Change(b, v, id, "Cancelled") ELSE Refused(b, v)

\* queue_remove: the explicit removal of an item that is not in flight.
QueueRemove(b, v, id) ==
    IF HasItem(b, id) /\ StatusIn(b, id) # "Downloading"
    THEN Reply(TRUE, SelectSeq(b, LAMBDA it : it.id # id), v, <<>>)
    ELSE Refused(b, v)

\* queue_clear_completed: removes the items that are terminal for scheduling.
QueueClearCompleted(b, v) ==
    Reply(TRUE,
          SelectSeq(b, LAMBDA it : it.status \notin {"Completed", "Failed", "Cancelled"}),
          v, <<>>)

\* The places item id may trade with when moved in direction dir (-1 up, 1
\* down): those of the Pending items on that side.
MoveTargets(b, id, dir) ==
    {j \in DOMAIN b : /\ b[j].status = "Pending"
                      /\ IF dir < 0 THEN j < IndexOf(b, id) ELSE j > IndexOf(b, id)}

\* queue_move_item: a Pending or Paused item trades places with the nearest
\* Pending item in the direction; nothing else moves.
QueueMoveItem(b, v, id, dir) ==
    IF StatusIn(b, id) \notin {"Pending", "Paused"} THEN Refused(b, v)
    ELSE IF MoveTargets(b, id, dir) = {} THEN Reply(TRUE, b, v, <<>>)
    ELSE LET T == MoveTargets(b, id, dir)
             j == CHOOSE k \in T : \A m \in T : IF dir < 0 THEN m <= k ELSE k <= m
         IN  Reply(TRUE, Swap(b, IndexOf(b, id), j), v, <<>>)

\* --------------------------------------------------------------- the App
\* The guards of the model's bounds, checked on the state a step leads to.
Within ==
    /\ Len(events) <= MaxEvents
    /\ Cardinality(snaps) <= MaxSnaps
    /\ Cardinality(calls) <= MaxCalls
    /\ Cardinality(runs) <= MaxRuns
    /\ Len(events) + Cardinality(snaps) + Cardinality(calls) + Cardinality(runs) <= MaxInFlight
    /\ \A id \in IdSet : ver[id] <= MaxVer
    /\ ver[Ids[1]] + ver[Ids[2]] <= MaxChanges

\* The first Pending item of the backend's list ("-" when there is none).
FirstPending(b) ==
    IF \E i \in DOMAIN b : b[i].status = "Pending"
    THEN b[CHOOSE i \in DOMAIN b :
               /\ b[i].status = "Pending"
               /\ \A j \in DOMAIN b : b[j].status = "Pending" => i <= j].id
    ELSE "-"

\* The record of an invoke(cmd, {id}): the status the handler saw for the
\* item, the status the backend has for it when the call is made, and the
\* backend's first Pending item at that moment.
Issue(cmd, id, seen) ==
    [cmd |-> cmd, id |-> id, shown |-> seen, actual |-> StatusIn(backend, id),
     head |-> IF cmd = "queue_start_download" THEN FirstPending(backend) ELSE "-"]

\* A handler suspended at its await: the command, its outcome, and what the
\* continuation reads from the closure it runs in (queue, isProcessingQueue).
Suspended(op, ok, arg, cq, cp) == [op |-> op, ok |-> ok, arg |-> arg, cq |-> cq, cp |-> cp]

\* a || b on strings: b when a is null or empty.
OrElse(a, b) == IF a \in {NULL, ""} THEN b ELSE a

\* The listener, were it to take the event's file_path whatever it is.
ApplyProgress_TakesPath(q, data) ==
    [i \in DOMAIN q |->
        IF q[i].id = data.id
        THEN [q[i] EXCEPT !.status = data.status,
                          !.progress = data.progress,
                          !.speed = data.speed,
                          !.eta = data.eta,
                          !.file_path = data.file_path]
        ELSE q[i]]

\* The listener, were it to take the event's message for the item's error
\* whenever the event reports Cancelled.
ApplyProgress_ErrorOnCancel(q, data) ==
    [i \in DOMAIN q |->
        IF q[i].id = data.id
        THEN [q[i] EXCEPT !.status = data.status,
                          !.progress = data.progress,
                          !.speed = data.speed,
                          !.eta = data.eta,
                          !.file_path = OrElse(data.file_path, @),
                          !.error = IF data.status = "Cancelled" THEN "Cancelled by user" ELSE @]
        ELSE q[i]]

\* The listener, were it to read the event's progress as a fraction of 1.
ApplyProgress_Fraction(q, data) ==
    [i \in DOMAIN q |->
        IF q[i].id = data.id
        THEN [q[i] EXCEPT !.status = data.status,
                          !.progress = data.progress * 100,
                          !.speed = data.speed,
                          !.eta = data.eta,
                          !.file_path = OrElse(data.file_path, @)]
        ELSE q[i]]

\* The listener, were it to drop an item from the list once it is finished.
ApplyProgress_DropsFinished(q, data) ==
    SelectSeq([i \in DOMAIN q |->
                  IF q[i].id = data.id
                  THEN [q[i] EXCEPT !.status = data.status,
                                    !.progress = data.progress,
                                    !.speed = data.speed,
                                    !.eta = data.eta,
                                    !.file_path = OrElse(data.file_path, @)]
                  ELSE q[i]],
              LAMBDA item : item.status \notin {"Completed", "Cancelled"})

\* The queue-progress listener's update of the list.
ApplyProgress(q, data) ==
    [i \in DOMAIN q |->
        IF q[i].id = data.id
        THEN [q[i] EXCEPT !.status = data.status,
                          !.progress = data.progress,
                          !.speed = data.speed,
                          !.eta = data.eta,
                          !.file_path = OrElse(data.file_path, @)]
        ELSE q[i]]

\* processQueue: what it reads from the list it was created with.
PendingItems(q) == SelectSeq(q, LAMBDA item : item.status = "Pending")

ActiveCount(q) == Len(SelectSeq(q, LAMBDA item : item.status = "Downloading"))

AvailableSlots(q) == settings.max_concurrent_downloads - ActiveCount(q)

\* The bound of processQueue's loop.
LoopBound(pending, slots) == Min(Len(pending), slots)

\* processQueue called in a closure whose queue is q and whose
\* isProcessingQueue is busy; ev and sn are the events and answers in flight.
\* It runs up to its first await (or to its end when the loop is empty).
ProcessQueue(q, busy, ev, sn) ==
    IF busy
    THEN /\ events' = ev
         /\ snaps' = sn
         /\ sent' = NoCall
         /\ UNCHANGED <<backend, ver, runs, isProcessingQueue>>
    ELSE IF LoopBound(IdsOf(PendingItems(q)), AvailableSlots(q)) <= 0
    THEN /\ events' = ev
         /\ snaps' = sn \cup {Snapshot(backend, ver)}
         /\ sent' = NoCall
         /\ isProcessingQueue' = FALSE
         /\ UNCHANGED <<backend, ver, runs>>
    ELSE LET pending == IdsOf(PendingItems(q))
             r == QueueStartDownload(backend, ver, pending[1])
         IN  /\ backend' = r.b
             /\ ver' = r.v
             /\ events' = ev \o r.ev
             /\ snaps' = sn
             /\ sent' = Issue("queue_start_download", pending[1], "Pending")
             /\ [pendingItems |-> pending, availableSlots |-> AvailableSlots(q),
                 i |-> 0, ok |-> r.ok] \notin runs
             /\ runs' = runs \cup {[pendingItems |-> pending, availableSlots |-> AvailableSlots(q),
                                    i |-> 0, ok |-> r.ok]}
             /\ isProcessingQueue' = TRUE

\* The effect, were it not to look at auto_start_queue.
AutoProcess_IgnoresSetting(q, ev, sn) ==
    IF /\ Len(PendingItems(q)) > 0
       /\ ActiveCount(q) < settings.max_concurrent_downloads
    THEN ProcessQueue(q, isProcessingQueue, ev, sn)
    ELSE /\ events' = ev
         /\ snaps' = sn
         /\ sent' = NoCall
         /\ UNCHANGED <<backend, ver, runs, isProcessingQueue>>

\* The effect on [queue, max_concurrent_downloads, auto_start_queue], run
\* after a render with a new list q.
AutoProcess(q, ev, sn) ==
    IF /\ Len(PendingItems(q)) > 0
       /\ ActiveCount(q) < settings.max_concurrent_downloads
       /\ settings.auto_start_queue
    THEN ProcessQueue(q, isProcessingQueue, ev, sn)
    ELSE /\ events' = ev
         /\ snaps' = sn
         /\ sent' = NoCall
         /\ UNCHANGED <<backend, ver, runs, isProcessingQueue>>

Form == <<url, videoInfo, filename, isFetchingInfo>>

\* A queue-progress event is delivered to the listener.
QueueProgress ==
    /\ events # <<>>
    /\ LET data == Head(events)
       IN  /\ queue' = ApplyProgress(queue, data)
           /\ shown' = IF HasItem(queue, data.id)
                       THEN [shown EXCEPT ![data.id] = [ver |-> data.ver, by |-> "event"]]
                       ELSE shown
           /\ AutoProcess(ApplyProgress(queue, data), Tail(events), snaps)
    /\ UNCHANGED <<settings, Form, calls>>
    /\ Within'
    /\ UNCHANGED Tab

\* loadQueue: the answer to queue_get_items arrives.
LoadQueue(s) ==
    /\ s \in snaps
    /\ queue' = s.items
    /\ shown' = [id \in IdSet |->
                    IF HasItem(s.items, id) THEN [ver |-> s.ver[id], by |-> "list"]
                    ELSE [ver |-> 0, by |-> "-"]]
    /\ AutoProcess(s.items, events, snaps \ {s})
    /\ UNCHANGED <<settings, Form, calls>>
    /\ Within'
    /\ UNCHANGED Tab

\* loadQueue: queue_get_items fails; the list stays as it is.
LoadQueueFails(s) ==
    /\ s \in snaps
    /\ snaps' = snaps \ {s}
    /\ sent' = NoCall
    /\ UNCHANGED <<backend, ver, events, queue, shown, isProcessingQueue, settings, Form,
                   calls, runs>>
    /\ UNCHANGED Tab

\* A processQueue run resumes after its await.
ProcessQueueResumes(r) ==
    /\ r \in runs
    /\ IF ~r.ok
       THEN \* catch: addLog; finally
            /\ runs' = runs \ {r}
            /\ isProcessingQueue' = FALSE
            /\ sent' = NoCall
            /\ UNCHANGED <<backend, ver, events, snaps>>
       ELSE IF r.i + 1 < LoopBound(r.pendingItems, r.availableSlots)
       THEN LET id == r.pendingItems[r.i + 2]
                a == QueueStartDownload(backend, ver, id)
            IN  /\ backend' = a.b
                /\ ver' = a.v
                /\ events' = events \o a.ev
                /\ sent' = Issue("queue_start_download", id, "Pending")
                /\ runs' = (runs \ {r}) \cup {[r EXCEPT !.i = r.i + 1, !.ok = a.ok]}
                /\ UNCHANGED <<snaps, isProcessingQueue>>
       ELSE \* loadQueue(); finally
            /\ snaps' = snaps \cup {Snapshot(backend, ver)}
            /\ runs' = runs \ {r}
            /\ isProcessingQueue' = FALSE
            /\ sent' = NoCall
            /\ UNCHANGED <<backend, ver, events>>
    /\ UNCHANGED <<queue, shown, settings, Form, calls>>
    /\ Within'
    /\ UNCHANGED Tab

\* The Start Queue button.
StartQueue ==
    /\ \E i \in DOMAIN queue : queue[i].status = "Pending"
    /\ ~isProcessingQueue
    /\ ProcessQueue(queue, isProcessingQueue, events, snaps)
    /\ UNCHANGED <<queue, shown, settings, Form, calls>>
    /\ Within'
    /\ UNCHANGED Tab

\* ------------------------------------------------- the queue tab's buttons
\* Which buttons an item of the list shows (queue-item-actions).
ShowsMove(item) == item.status = "Pending"

MoveDisabled(q, index, dir) == IF dir < 0 THEN index = 1 ELSE index = Len(q)

ShowsPause(item) == item.status = "Downloading"

ShowsResume(item) == item.status = "Paused"

ShowsRetry(item) == item.status = "Failed"

ShowsCancel(item) == item.status = "Pending" \/ item.status = "Paused"

ShowsRemove(item) ==
    item.status = "Completed" \/ item.status = "Failed" \/ item.status = "Cancelled"

ShowsClearCompleted(q) ==
    \E i \in DOMAIN q : q[i].status = "Completed" \/ q[i].status = "Failed"

\* A handler calls invoke(cmd) and suspends; r is what the backend makes of it.
Invoke(cmd, id, seen, r, cq, cp) ==
    /\ backend' = r.b
    /\ ver' = r.v
    /\ events' = events \o r.ev
    /\ sent' = Issue(cmd, id, seen)
    /\ Suspended(cmd, r.ok, id, cq, cp) \notin calls
    /\ calls' = calls \cup {Suspended(cmd, r.ok, id, cq, cp)}
    /\ UNCHANGED <<snaps, queue, shown, isProcessingQueue, settings, Form, runs>>
    /\ Within'
    /\ UNCHANGED Tab

RemoveFromQueue(i) ==
    /\ i \in DOMAIN queue
    /\ ShowsRemove(queue[i])
    /\ Invoke("queue_remove", queue[i].id, queue[i].status,
              QueueRemove(backend, ver, queue[i].id), <<>>, FALSE)

PauseQueueItem(i) ==
    /\ i \in DOMAIN queue
    /\ ShowsPause(queue[i])
    /\ Invoke("queue_pause", queue[i].id, queue[i].status,
              QueuePause(backend, ver, queue[i].id), <<>>, FALSE)

\* The Resume and the Retry button both call resumeQueueItem.
ResumeQueueItem(i) ==
    /\ i \in DOMAIN queue
    /\ ShowsResume(queue[i]) \/ ShowsRetry(queue[i])
    /\ Invoke("queue_resume", queue[i].id, queue[i].status,
              QueueResume(backend, ver, queue[i].id), queue, isProcessingQueue)

\* cancelQueueItem, were it to mark the item Cancelled before the backend answers.
CancelQueueItem_Optimistic(i) ==
    /\ i \in DOMAIN queue
    /\ ShowsCancel(queue[i])
    /\ LET r == QueueCancel(backend, ver, queue[i].id)
       IN  /\ backend' = r.b
           /\ ver' = r.v
           /\ events' = events \o r.ev
           /\ Suspended("queue_cancel", r.ok, queue[i].id, <<>>, FALSE) \notin calls
           /\ calls' = calls \cup {Suspended("queue_cancel", r.ok, queue[i].id, <<>>, FALSE)}
    /\ sent' = Issue("queue_cancel", queue[i].id, queue[i].status)
    /\ queue' = [queue EXCEPT ![i].status = "Cancelled"]
    /\ UNCHANGED <<snaps, shown, isProcessingQueue, settings, Form, runs>>
    /\ Within'
    /\ UNCHANGED Tab

CancelQueueItem(i) ==
    /\ i \in DOMAIN queue
    /\ ShowsCancel(queue[i])
    /\ Invoke("queue_cancel", queue[i].id, queue[i].status,
              QueueCancel(backend, ver, queue[i].id), <<>>, FALSE)

ClearCompletedQueue ==
    /\ ShowsClearCompleted(queue)
    /\ Invoke("queue_clear_completed", "-", "-", QueueClearCompleted(backend, ver), <<>>, FALSE)

MoveQueueItem(i, dir) ==
    /\ i \in DOMAIN queue
    /\ ShowsMove(queue[i])
    /\ ~MoveDisabled(queue, i, dir)
    /\ Invoke("queue_move_item", queue[i].id, queue[i].status,
              QueueMoveItem(backend, ver, queue[i].id, dir), <<>>, FALSE)

\* removeFromQueue, pauseQueueItem, cancelQueueItem, clearCompletedQueue and
\* moveQueueItem after their await: loadQueue() on success, a log line otherwise.
CommandSettles(c) ==
    /\ c \in calls
    /\ c.op \in {"queue_remove", "queue_pause", "queue_cancel", "queue_clear_completed",
                 "queue_move_item"}
    /\ calls' = calls \ {c}
    /\ snaps' = IF c.ok THEN snaps \cup {Snapshot(backend, ver)} ELSE snaps
    /\ sent' = NoCall
    /\ UNCHANGED <<backend, ver, events, queue, shown, isProcessingQueue, settings, Form, runs>>
    /\ Within'
    /\ UNCHANGED Tab

\* resumeQueueItem after its await: loadQueue(), then processQueue().
ResumeSettles(c) ==
    /\ c \in calls
    /\ c.op = "queue_resume"
    /\ calls' = calls \ {c}
    /\ IF c.ok
       THEN ProcessQueue(c.cq, c.cp, events, snaps \cup {Snapshot(backend, ver)})
       ELSE /\ sent' = NoCall
            /\ UNCHANGED <<backend, ver, events, snaps, runs, isProcessingQueue>>
    /\ UNCHANGED <<queue, shown, settings, Form>>
    /\ Within'
    /\ UNCHANGED Tab

\* ------------------------------------------------------- the download tab
Urls == {"https://site/video"}

\* What get_video_info resolves: the title holds a character a file name may
\* not contain.
Title == <<"a", "/">>

Forbidden == {"<", ">", ":", "\"", "/", "\\", "|", "?", "*"}

\* title.replace(/[<>:"/\\|?*]/g, "_") + ".mp4"
SanitizedName(title) ==
    [k \in DOMAIN title |-> IF title[k] \in Forbidden THEN "_" ELSE title[k]] \o <<".mp4">>

\* The URL input's onChange.
TypeUrl(u) ==
    /\ ~isDownloading
    /\ ~isFetchingInfo
    /\ u # url
    /\ url' = u
    /\ sent' = NoCall
    /\ UNCHANGED <<backend, ver, events, snaps, queue, shown, isProcessingQueue, settings,
                   videoInfo, filename, isFetchingInfo, calls, runs>>
    /\ UNCHANGED Tab

\* handleFetchInfo up to its await; get_video_info resolves the page or fails.
FetchInfo ==
    /\ url # ""
    /\ isFetchingInfo' = TRUE
    /\ videoInfo' = NoVideoInfo
    /\ \E ok \in BOOLEAN :
          /\ Suspended("get_video_info", ok, url, <<>>, FALSE) \notin calls
          /\ calls' = calls \cup {Suspended("get_video_info", ok, url, <<>>, FALSE)}
    /\ sent' = Issue("get_video_info", "-", "-")
    /\ UNCHANGED <<backend, ver, events, snaps, queue, shown, isProcessingQueue, settings,
                   url, filename, runs>>
    /\ Within'
    /\ UNCHANGED Tab

\* The fetch button, disabled while downloading, fetching or without a URL.
HandleFetchInfo ==
    /\ ~isDownloading
    /\ ~isFetchingInfo
    /\ FetchInfo

\* handleFetchInfo after its await, get_video_info having resolved (when ok)
\* a page with this title; the file name is proposed only for a title that
\* is not empty.
FetchInfoSettlesWith(c, title) ==
    /\ c \in calls
    /\ c.op = "get_video_info"
    /\ calls' = calls \ {c}
    /\ IF c.ok
       THEN /\ videoInfo' = [url |-> c.arg, title |-> title]
            /\ filename' = IF title # <<>> THEN SanitizedName(title) ELSE filename
       ELSE UNCHANGED <<videoInfo, filename>>
    /\ isFetchingInfo' = FALSE
    /\ sent' = NoCall
    /\ UNCHANGED <<backend, ver, events, snaps, queue, shown, isProcessingQueue, settings,
                   url, runs>>
    /\ UNCHANGED Tab

\* handleFetchInfo, were its finally to run only after a success.
FetchInfoSettles_NoFinally(c) ==
    /\ c \in calls
    /\ c.op = "get_video_info"
    /\ calls' = calls \ {c}
    /\ IF c.ok
       THEN /\ videoInfo' = [url |-> c.arg, title |-> Title]
            /\ filename' = SanitizedName(Title)
            /\ isFetchingInfo' = FALSE
       ELSE UNCHANGED <<videoInfo, filename, isFetchingInfo>>
    /\ sent' = NoCall
    /\ UNCHANGED <<backend, ver, events, snaps, queue, shown, isProcessingQueue, settings,
                   url, runs>>
    /\ UNCHANGED Tab

\* handleFetchInfo after its await.
FetchInfoSettles(c) == FetchInfoSettlesWith(c, Title)

\* a || b on the file names: b when a is empty.
OrName(a, b) == IF a = <<>> THEN b ELSE a

\* filename || videoInfo.title?.replace(/[<>:"/\\|?*]/g, "_") + ".mp4" || "video.mp4"
\* (+ binds tighter than ||).
OutputFilename(f, title) == OrName(OrName(f, SanitizedName(title)), <<"video.mp4">>)

\* The arguments of invoke("queue_add", ...).
QueueAddCall(u, info, f) ==
    [cmd |-> "queue_add", url |-> u, title |-> OrName(info.title, <<"Unknown">>),
     outputFilename |-> OutputFilename(f, info.title)]

\* addToQueue up to its await: without video info it logs an error and
\* returns; otherwise queue_add stores the item or fails.
AddToQueue ==
    /\ FreshIds(ver) # {}
    /\ IF videoInfo = NoVideoInfo
       THEN /\ sent' = Logged("error", "Please fetch video info first")
            /\ UNCHANGED <<backend, ver, calls>>
       ELSE /\ ~isDownloading
            /\ \E ok \in BOOLEAN :
                  LET r == IF ok THEN QueueAdd(backend, ver) ELSE Refused(backend, ver)
                  IN  /\ backend' = r.b
                      /\ ver' = r.v
                      /\ Suspended("queue_add", r.ok, url, queue, isProcessingQueue) \notin calls
                      /\ calls' = calls \cup {Suspended("queue_add", r.ok, url, queue,
                                                        isProcessingQueue)}
            /\ sent' = QueueAddCall(url, videoInfo, filename)
    /\ UNCHANGED <<events, snaps, queue, shown, isProcessingQueue, settings, Form, runs>>
    /\ Within'
    /\ UNCHANGED Tab

\* addToQueue, were it to clear the form in a finally block.
AddSettles_ClearsAlways(c) ==
    /\ c \in calls
    /\ c.op = "queue_add"
    /\ calls' = calls \ {c}
    /\ url' = ""
    /\ videoInfo' = NoVideoInfo
    /\ filename' = <<>>
    /\ IF c.ok
       THEN IF settings.auto_start_queue
            THEN ProcessQueue(c.cq, c.cp, events, snaps \cup {Snapshot(backend, ver)})
            ELSE /\ snaps' = snaps \cup {Snapshot(backend, ver)}
                 /\ sent' = NoCall
                 /\ UNCHANGED <<backend, ver, events, runs, isProcessingQueue>>
       ELSE /\ sent' = Logged("error", "Failed to add to queue")
            /\ UNCHANGED <<backend, ver, events, snaps, runs, isProcessingQueue>>
    /\ UNCHANGED <<queue, shown, settings, isFetchingInfo>>
    /\ Within'
    /\ UNCHANGED Tab

\* addToQueue after its await: loadQueue(), the form is cleared, and
\* processQueue() when auto-start is on; an error line when queue_add failed.
AddSettles(c) ==
    /\ c \in calls
    /\ c.op = "queue_add"
    /\ calls' = calls \ {c}
    /\ IF c.ok
       THEN /\ url' = ""
            /\ videoInfo' = NoVideoInfo
            /\ filename' = <<>>
            /\ IF settings.auto_start_queue
               THEN ProcessQueue(c.cq, c.cp, events, snaps \cup {Snapshot(backend, ver)})
               ELSE /\ snaps' = snaps \cup {Snapshot(backend, ver)}
                    /\ sent' = NoCall
                    /\ UNCHANGED <<backend, ver, events, runs, isProcessingQueue>>
       ELSE /\ sent' = Logged("error", "Failed to add to queue")
            /\ UNCHANGED <<backend, ver, events, snaps, runs, isProcessingQueue, url,
                           videoInfo, filename>>
    /\ UNCHANGED <<queue, shown, settings, isFetchingInfo>>
    /\ Within'
    /\ UNCHANGED Tab

\* ------------------------------------------------- the running downloads
\* A step of a running download: the backend changes item i and reports it.
Reports(i, it, n) ==
    /\ backend' = [backend EXCEPT ![i] = it]
    /\ ver' = [ver EXCEPT ![it.id] = n]
    /\ events' = Append(events, EventOf(it, n))
    /\ sent' = NoCall
    /\ UNCHANGED <<snaps, queue, shown, isProcessingQueue, settings, Form, calls, runs>>
    /\ Within'
    /\ UNCHANGED Tab

DownloadCompletes(i) ==
    /\ i \in DOMAIN backend
    /\ backend[i].status = "Downloading"
    /\ Reports(i, Turn(backend[i], "Completed"), ver[backend[i].id] + 1)

DownloadFails(i) ==
    /\ i \in DOMAIN backend
    /\ backend[i].status = "Downloading"
    /\ Reports(i, Turn(backend[i], "Failed"), ver[backend[i].id] + 1)

\* ------------------------------------------- the download tab's transfer
\* lastProgressUpdate.current = null, eta = null, and no transfer running.
NoUpdate == [time |-> -1, bytes |-> 0]

NoEta == [num |-> 0, den |-> 0]

NoTask == [active |-> FALSE, bytes |-> 0, total |-> 0]

\* remainingBytes / downloadSpeed, kept as a fraction.
Ratio(n, d) == [num |-> n, den |-> d]

\* The downloadSpeed the download-progress listener reads: the listener is
\* registered once, by the mount effect, and keeps the first render's value.
MountDownloadSpeed == 0

\* The payload of a download-progress event (interface DownloadProgress);
\* an absent downloaded_bytes, total_bytes or speed_bps is 0.
DownloadProgress(st, pct, bytes, total, bps) ==
    [status |-> st, progress |-> pct, downloaded_bytes |-> bytes, total_bytes |-> total,
     speed_bps |-> bps]

\* bytesDiff / timeDiff, timeDiff in seconds (the times are in milliseconds).
InstantSpeed(bytesDiff, timeDiffMs) == (bytesDiff * 1000) \div timeDiffMs

\* The smoothing with its two weights exchanged.
Smooth_Swapped(prev, instantSpeed) ==
    IF prev = 0 THEN instantSpeed ELSE (prev * 3 + instantSpeed * 7) \div 10

\* prev === 0 ? instantSpeed : prev * 0.7 + instantSpeed * 0.3
Smooth(prev, instantSpeed) ==
    IF prev = 0 THEN instantSpeed ELSE (prev * 7 + instantSpeed * 3) \div 10

\* The download-progress listener, called at time t with payload data.
DownloadProgressListener(data, t) ==
    CASE data.status = "downloading" ->
           /\ progress' = data.progress
           /\ IF data.downloaded_bytes > 0
              THEN /\ downloadedBytes' = data.downloaded_bytes
                   /\ totalBytes' = data.total_bytes
                   /\ IF lastProgressUpdate # NoUpdate
                      THEN IF t - lastProgressUpdate.time > 100
                           THEN /\ downloadSpeed' =
                                      Smooth(downloadSpeed,
                                             InstantSpeed(data.downloaded_bytes
                                                             - lastProgressUpdate.bytes,
                                                          t - lastProgressUpdate.time))
                                /\ lastProgressUpdate' =
                                      [time |-> t, bytes |-> data.downloaded_bytes]
                           ELSE UNCHANGED <<downloadSpeed, lastProgressUpdate>>
                      ELSE /\ lastProgressUpdate' =
                                 [time |-> t, bytes |-> data.downloaded_bytes]
                           /\ UNCHANGED downloadSpeed
                   /\ IF MountDownloadSpeed > 0 /\ data.total_bytes > 0
                      THEN eta' = Ratio(data.total_bytes - data.downloaded_bytes,
                                        MountDownloadSpeed)
                      ELSE UNCHANGED eta
              ELSE /\ IF data.speed_bps # 0
                      THEN downloadSpeed' = data.speed_bps
                      ELSE UNCHANGED downloadSpeed
                   /\ UNCHANGED <<downloadedBytes, totalBytes, lastProgressUpdate, eta>>
           /\ UNCHANGED <<isDownloading, status>>
      [] data.status = "completed" ->
           /\ progress' = 100
           /\ status' = "completed"
           /\ isDownloading' = FALSE
           /\ downloadSpeed' = 0
           /\ eta' = NoEta
           /\ downloadedBytes' = 0
           /\ totalBytes' = 0
           /\ lastProgressUpdate' = NoUpdate
      [] data.status = "error" ->
           /\ status' = "error"
           /\ isDownloading' = FALSE
           /\ downloadSpeed' = 0
           /\ eta' = NoEta
           /\ UNCHANGED <<progress, downloadedBytes, totalBytes, lastProgressUpdate>>

\* What the download tab's steps leave alone: the queue and the form.
QueueSide == <<backend, ver, events, snaps, queue, shown, isProcessingQueue, settings, runs>>

\* The sizes download_video may find for the file (0: unknown).
FileSize == 24000

Totals == {0, FileSize}

\* handleDownload up to its await: the display is reset and download_video
\* is invoked.
HandleDownload ==
    /\ ~isDownloading
    /\ url # ""
    /\ ~task.active
    /\ isDownloading' = TRUE
    /\ status' = "downloading"
    /\ progress' = 0
    /\ downloadSpeed' = 0
    /\ downloadedBytes' = 0
    /\ totalBytes' = 0
    /\ eta' = NoEta
    /\ lastProgressUpdate' = NoUpdate
    /\ \E total \in Totals : task' = [active |-> TRUE, bytes |-> 0, total |-> total]
    /\ sent' = Issue("download_video", "-", "-")
    /\ UNCHANGED <<QueueSide, Form, calls, now, reads, timers>>

\* The percentage the backend reports for bytes of total.
Percent(bytes, total) == IF total > 0 THEN (bytes * 100) \div total ELSE 0

\* The running transfer reports progress dt milliseconds after the last
\* report, db bytes further on, and the listener handles the event.
TransferReports(dt, db, bps) ==
    /\ task.active
    /\ now + dt <= MaxNow
    /\ task.bytes + db < FileSize
    /\ now' = now + dt
    /\ task' = [task EXCEPT !.bytes = @ + db]
    /\ DownloadProgressListener(
          DownloadProgress("downloading", Percent(task.bytes + db, task.total),
                           task.bytes + db, task.total, bps),
          now + dt)
    /\ sent' = NoCall
    /\ UNCHANGED <<QueueSide, Form, calls, reads, timers>>

\* The transfer ends: the backend emits its last event and answers
\* download_video (resolves it when ok, rejects it otherwise).
TransferEnds(ok) ==
    /\ task.active
    /\ Suspended("download_video", ok, url, <<>>, FALSE) \notin calls
    /\ Cardinality(calls) < MaxCalls
    /\ task' = NoTask
    /\ DownloadProgressListener(
          DownloadProgress(IF ok THEN "completed" ELSE "error", 0, 0, 0, 0), now)
    /\ calls' = calls \cup {Suspended("download_video", ok, url, <<>>, FALSE)}
    /\ sent' = NoCall
    /\ UNCHANGED <<QueueSide, Form, now, reads, timers>>

\* handleDownload, were it to write the history record outside its try.
DownloadSettles_AlwaysRecords(c) ==
    /\ c \in calls
    /\ c.op = "download_video"
    /\ calls' = calls \ {c}
    /\ sent' = Issue("add_to_history", "-", "-")
    /\ status' = IF c.ok THEN status ELSE "error"
    /\ isDownloading' = FALSE
    /\ UNCHANGED <<QueueSide, Form, progress, downloadSpeed, downloadedBytes, totalBytes,
                   eta, lastProgressUpdate, now, task, reads, timers>>

\* handleDownload after its await: add_to_history on success, the error
\* status otherwise (also when add_to_history itself fails); finally.
DownloadSettles(c) ==
    /\ c \in calls
    /\ c.op = "download_video"
    /\ calls' = calls \ {c}
    /\ IF c.ok
       THEN /\ sent' = Issue("add_to_history", "-", "-")
            /\ \E stored \in BOOLEAN : status' = IF stored THEN status ELSE "error"
       ELSE /\ sent' = NoCall
            /\ status' = "error"
    /\ isDownloading' = FALSE
    /\ UNCHANGED <<QueueSide, Form, progress, downloadSpeed, downloadedBytes, totalBytes,
                   eta, lastProgressUpdate, now, task, reads, timers>>

\* ------------------------------------------------- keys and the clear button
\* Enter in a focused input with a URL in the field: handleDownload when video
\* info is there and nothing downloads, else handleFetchInfo when nothing is
\* being fetched and there is no video info.
KeyEnter ==
    /\ url # ""
    /\ IF videoInfo # NoVideoInfo /\ ~isDownloading
       THEN HandleDownload
       ELSE /\ ~isFetchingInfo
            /\ videoInfo = NoVideoInfo
            /\ FetchInfo

\* The clear-url button, rendered whenever the field holds text.
ClearUrl ==
    /\ url # ""
    /\ url' = ""
    /\ videoInfo' = NoVideoInfo
    /\ sent' = NoCall
    /\ UNCHANGED <<QueueSide, filename, isFetchingInfo, calls, Tab>>

\* Escape (the quality dropdown closed): clears the form unless downloading.
KeyEscape ==
    /\ ~isDownloading
    /\ ClearUrl

\* ------------------------------------------------- the clipboard check
\* What navigator.clipboard.readText() may resolve to.
ClipTexts == {" https://clip/video ", "hello"}

\* clipboardText.trim()
Trim(text) == IF text = " https://clip/video " THEN "https://clip/video" ELSE text

\* isValidUrl: the text parses as a URL whose protocol is http: or https:.
IsValidUrl(str) == str \in {"https://clip/video", "https://site/video"}

\* checkClipboard as created by a render whose url is u and whose
\* isDownloading || isFetchingInfo is busy, up to its await.
CheckClipboardIn(u, busy) ==
    IF u # "" \/ busy THEN reads' = reads ELSE reads' = reads + 1

\* The window gains focus (or the effect on [checkClipboard] runs):
\* checkClipboard of the current render is called.
CheckClipboard ==
    /\ CheckClipboardIn(url, isDownloading \/ isFetchingInfo)
    /\ reads' # reads
    /\ reads' <= MaxReads
    /\ sent' = NoCall
    /\ UNCHANGED <<QueueSide, Form, calls, isDownloading, status, progress, downloadSpeed,
                   downloadedBytes, totalBytes, eta, lastProgressUpdate, now, task, timers>>

\* checkClipboard after its await: a valid URL is written to the field.
ClipboardResolves(text) ==
    /\ reads > 0
    /\ reads' = reads - 1
    /\ url' = IF IsValidUrl(Trim(text)) THEN Trim(text) ELSE url
    /\ sent' = NoCall
    /\ UNCHANGED <<QueueSide, videoInfo, filename, isFetchingInfo, calls, isDownloading,
                   status, progress, downloadSpeed, downloadedBytes, totalBytes, eta,
                   lastProgressUpdate, now, task, timers>>

\* Ctrl+V: setTimeout(() => checkClipboard(), 100) with the handler's checkClipboard.
KeyCtrlV ==
    /\ [url |-> url, busy |-> isDownloading \/ isFetchingInfo] \notin timers
    /\ Cardinality(timers) < MaxTimers
    /\ timers' = timers \cup {[url |-> url, busy |-> isDownloading \/ isFetchingInfo]}
    /\ sent' = NoCall
    /\ UNCHANGED <<QueueSide, Form, calls, isDownloading, status, progress, downloadSpeed,
                   downloadedBytes, totalBytes, eta, lastProgressUpdate, now, task, reads>>

\* The Ctrl+V timer fires.
TimerFires(t) ==
    /\ t \in timers
    /\ timers' = timers \ {t}
    /\ CheckClipboardIn(t.url, t.busy)
    /\ reads' <= MaxReads
    /\ sent' = NoCall
    /\ UNCHANGED <<QueueSide, Form, calls, isDownloading, status, progress, downloadSpeed,
                   downloadedBytes, totalBytes, eta, lastProgressUpdate, now, task>>

\* ------------------------------------------------------ the specification
Positions == 1..Len(Ids)

Init ==
    /\ backend = <<>>
    /\ ver = [id \in IdSet |-> 0]
    /\ events = <<>>
    /\ snaps = {Snapshot(<<>>, [id \in IdSet |-> 0])}
    /\ queue = <<>>
    /\ shown = [id \in IdSet |-> [ver |-> 0, by |-> "-"]]
    /\ isProcessingQueue = FALSE
    /\ settings \in [max_concurrent_downloads : ConcurrencyChoices, auto_start_queue : BOOLEAN]
    /\ url = ""
    /\ videoInfo = NoVideoInfo
    /\ filename = <<>>
    /\ isFetchingInfo = FALSE
    /\ calls = {}
    /\ runs = {}
    /\ sent = NoCall
    /\ isDownloading = FALSE
    /\ status = "idle"
    /\ progress = 0
    /\ downloadSpeed = 0
    /\ downloadedBytes = 0
    /\ totalBytes = 0
    /\ eta = NoEta
    /\ lastProgressUpdate = NoUpdate
    /\ now = 0
    /\ task = NoTask
    /\ reads = 0
    /\ timers = {}

Next ==
    \/ QueueProgress
    \/ \E s \in snaps : LoadQueue(s)
    \/ \E s \in snaps : LoadQueueFails(s)
    \/ \E r \in runs : ProcessQueueResumes(r)
    \/ StartQueue
    \/ \E i \in Positions : RemoveFromQueue(i)
    \/ \E i \in Positions : PauseQueueItem(i)
    \/ \E i \in Positions : ResumeQueueItem(i)
    \/ \E i \in Positions : CancelQueueItem(i)
    \/ ClearCompletedQueue
    \/ \E i \in Positions, dir \in {-1, 1} : MoveQueueItem(i, dir)
    \/ \E c \in calls : CommandSettles(c)
    \/ \E c \in calls : ResumeSettles(c)
    \/ FreshIds(ver) # {} /\ \E u \in Urls : TypeUrl(u)
    \/ FreshIds(ver) # {} /\ HandleFetchInfo
    \/ \E c \in calls : FetchInfoSettles(c)
    \/ AddToQueue
    \/ \E c \in calls : AddSettles(c)
    \/ \E i \in Positions : DownloadCompletes(i)
    \/ \E i \in Positions : DownloadFails(i)

Spec == Init /\ [][Next]_vars

\* The download tab alone: the form, one transfer at a time and its display.
\* Milliseconds between two reports (0: both in the same millisecond).
Intervals == {0, 1000, 2000}

\* Bytes between two reports.
Chunks == {0, 6000}

\* The settings the App starts with, before get_settings answers.
InitDownload ==
    /\ Init
    /\ settings = [max_concurrent_downloads |-> 2, auto_start_queue |-> TRUE]

NextDownload ==
    \/ \E u \in Urls : TypeUrl(u)
    \/ HandleFetchInfo
    \/ \E c \in calls : FetchInfoSettles(c)
    \/ HandleDownload
    \/ \E dt \in Intervals, db \in Chunks, bps \in {0, 3000} : TransferReports(dt, db, bps)
    \/ \E ok \in BOOLEAN : TransferEnds(ok)
    \/ \E c \in calls : DownloadSettles(c)
    \/ CheckClipboard
    \/ \E text \in ClipTexts : ClipboardResolves(text)
    \/ KeyCtrlV
    \/ \E t \in timers : TimerFires(t)
    \/ KeyEnter
    \/ ClearUrl
    \/ KeyEscape

SpecDownload == InitDownload /\ [][NextDownload]_vars

\* ------------------------------------------------------------ the form
\* What the user may leave in the URL field: nothing, or one of two addresses.
FieldTexts == Urls \cup {"", "https://other/video"}

\* What the user may leave in the file name field.
FileNames == {<<>>, <<"my.mp4">>}

\* The titles get_video_info may resolve: one with a forbidden character, and
\* the empty one.
Titles == {Title, <<>>}

\* The file name input's onChange.
TypeFilename(f) ==
    /\ ~isDownloading
    /\ f # filename
    /\ filename' = f
    /\ sent' = NoCall
    /\ UNCHANGED <<QueueSide, url, videoInfo, isFetchingInfo, calls, Tab>>

InitForm == Init /\ settings = [max_concurrent_downloads |-> 2, auto_start_queue |-> FALSE]

NextForm ==
    \/ \E u \in FieldTexts : TypeUrl(u)
    \/ \E f \in FileNames : TypeFilename(f)
    \/ ClearUrl
    \/ KeyEscape
    \/ HandleFetchInfo
    \/ \E c \in calls, title \in Titles : FetchInfoSettlesWith(c, title)
    \/ AddToQueue
    \/ \E c \in calls : AddSettles(c)
    \/ \E s \in snaps : LoadQueue(s)

SpecForm == InitForm /\ [][NextForm]_vars

\* --------------------------------------------------- the busy flags
\* The three operations that hold a busy flag, with what starts and settles
\* them.
NextSettles ==
    \/ \E u \in Urls : TypeUrl(u)
    \/ HandleFetchInfo
    \/ \E c \in calls : FetchInfoSettles(c)
    \/ AddToQueue
    \/ \E c \in calls : AddSettles(c)
    \/ \E s \in snaps : LoadQueue(s)
    \/ QueueProgress
    \/ StartQueue
    \/ \E r \in runs : ProcessQueueResumes(r)
    \/ HandleDownload
    \/ \E ok \in BOOLEAN : TransferEnds(ok)
    \/ \E c \in calls : DownloadSettles(c)

\* Every awaited call settles and every answer and event is delivered; the
\* fairness is strong because the bounds on what is in flight may disable a
\* delivery for a while.
SpecSettles ==
    /\ InitDownload
    /\ [][NextSettles]_vars
    /\ SF_vars(\E c \in calls : FetchInfoSettles(c))
    /\ SF_vars(\E c \in calls : AddSettles(c))
    /\ SF_vars(\E s \in snaps : LoadQueue(s))
    /\ SF_vars(QueueProgress)
    /\ SF_vars(\E r \in runs : ProcessQueueResumes(r))
    /\ SF_vars(\E ok \in BOOLEAN : TransferEnds(ok))
    /\ SF_vars(\E c \in calls : DownloadSettles(c))

\* ------------------------------------------- the listener on any payload
\* Two items have been added with auto-start off and the list is loaded.
InitListener ==
    /\ backend = <<NewItem(Ids[1]), NewItem(Ids[2])>>
    /\ ver = [id \in IdSet |-> 1]
    /\ events = <<>>
    /\ snaps = {}
    /\ queue = <<NewItem(Ids[1]), NewItem(Ids[2])>>
    /\ shown = [id \in IdSet |-> [ver |-> 1, by |-> "list"]]
    /\ isProcessingQueue = FALSE
    /\ settings = [max_concurrent_downloads |-> 2, auto_start_queue |-> FALSE]
    /\ url = ""
    /\ videoInfo = NoVideoInfo
    /\ filename = <<>>
    /\ isFetchingInfo = FALSE
    /\ calls = {}
    /\ runs = {}
    /\ sent = NoCall
    /\ isDownloading = FALSE
    /\ status = "idle"
    /\ progress = 0
    /\ downloadSpeed = 0
    /\ downloadedBytes = 0
    /\ totalBytes = 0
    /\ eta = NoEta
    /\ lastProgressUpdate = NoUpdate
    /\ now = 0
    /\ task = NoTask
    /\ reads = 0
    /\ timers = {}

\* The file_path a queue-progress payload may carry (string | null): none,
\* the empty string, the partial file while downloading, the final file.
PathsOf(st) == {NULL, ""} \cup (IF st = "Completed" THEN {"out.mp4"} ELSE {"part.mp4"})

\* A queue-progress event with any payload of the interface is emitted.
Emits(id, st, path) ==
    /\ events' = Append(events,
                        [id |-> id, status |-> st, progress |-> IF st = "Completed" THEN 100 ELSE 50,
                         speed |-> "", eta |-> "", file_path |-> path, ver |-> ver[id]])
    /\ sent' = NoCall
    /\ UNCHANGED <<backend, ver, snaps, queue, shown, isProcessingQueue, settings, Form,
                   calls, runs, Tab>>
    /\ Within'

NextListener ==
    \/ \E id \in IdSet, st \in {"Downloading", "Completed"} :
          \E path \in PathsOf(st) : Emits(id, st, path)
    \/ QueueProgress

SpecListener == InitListener /\ [][NextListener]_vars

RunList ==
    IF \E c \in calls \ calls' : c.op \in {"queue_add", "queue_resume"}
    THEN (CHOOSE c \in calls \ calls' : c.op \in {"queue_add", "queue_resume"}).cq
    ELSE queue'

\* p lists the ids of the Pending items of q, in the order of q.
IsPendingOrder(p, q) ==
    /\ \A k \in DOMAIN p : HasItem(q, p[k]) /\ StatusIn(q, p[k]) = "Pending"
    /\ \A i \in DOMAIN q : q[i].status = "Pending" => \E k \in DOMAIN p : p[k] = q[i].id
    /\ \A k, l \in DOMAIN p : k < l => IndexOf(q, p[k]) < IndexOf(q, p[l])

DownloadingCount(q) == Cardinality({i \in DOMAIN q : q[i].status = "Downloading"})

\* What the claim lets a run issue: min(Pending, max - Downloading) calls.
Quota(r) == Min(Len(r.pendingItems), r.availableSlots)

RunBegins(r) == r \in runs' /\ r \notin runs /\ r.i = 0

RunAdvances(r) == r \in runs' /\ r \notin runs /\ r.i > 0

RunEnds(r) == r \in runs /\ r \notin runs' /\ Cardinality(runs') < Cardinality(runs)

StartIssued == sent'.cmd = "queue_start_download"

\* C2: each run of processQueue counts the items in Downloading and issues
\* queue_start_download for the Pending items in queue order, lowest position
\* first, for exactly min(Pending, max - Downloading) items, and for none when
\* Downloading is at the maximum: a run ends having issued that many calls.
C2_ExactlyQuota == [][\A r \in runs : RunEnds(r) => r.i + 1 = Quota(r)]_vars

\* What does hold of a run: it counts the Pending and the Downloading items of
\* the list it was created with, issues queue_start_download for the Pending
\* items in that list's order, one call per step, never more than the quota,
\* and ends short of the quota only with a failed call.
ProcessQueueRun ==
    [][/\ \A r \in runs' :
            /\ r.i + 1 <= Quota(r)
            /\ RunBegins(r) =>
                 /\ IsPendingOrder(r.pendingItems, RunList)
                 /\ r.availableSlots =
                       settings.max_concurrent_downloads - DownloadingCount(RunList)
                 /\ DownloadingCount(RunList) < settings.max_concurrent_downloads
            /\ RunBegins(r) \/ RunAdvances(r) =>
                 /\ StartIssued
                 /\ sent'.id = r.pendingItems[r.i + 1]
            /\ RunAdvances(r) =>
                 \E o \in runs \ runs' :
                    /\ o.ok
                    /\ o.i + 1 = r.i
                    /\ o.pendingItems = r.pendingItems
                    /\ o.availableSlots = r.availableSlots
       /\ StartIssued => \E r \in runs' : RunBegins(r) \/ RunAdvances(r)
       /\ \A r \in runs : RunEnds(r) => ~r.ok \/ r.i + 1 = Quota(r)
      ]_vars

\* C3: queue_start_download is only ever issued for an item that is Pending
\* at the moment of the call (never for one that is Downloading, Paused,
\* Completed, Failed or Cancelled, hence never twice in a row for one item).
C3_StartOnlyPending == sent.cmd = "queue_start_download" => sent.actual = "Pending"

\* C4: the status the list shows for an item changes only along the edges of
\* the state machine, whatever order events, reloads and commands arrive in.
C4_OnlyEdges ==
    [][\A id \in IdSet :
          /\ HasItem(queue, id)
          /\ HasItem(queue', id)
          /\ StatusIn(queue', id) # StatusIn(queue, id)
          => <<StatusIn(queue, id), StatusIn(queue', id)>> \in Edges]_vars

\* C5: once the status carried by a queue-progress event has been applied to
\* an item, no list returned by a queue_get_items call made before that event
\* overwrites it.
C5_NoLostUpdate ==
    [][\A id \in IdSet :
          /\ shown[id].by = "event"
          /\ shown'[id].by = "list"
          /\ shown'[id].ver < shown[id].ver
          => StatusIn(queue', id) = StatusIn(queue, id)]_vars

\* C6: remove and move commands are issued only for items that are Pending or
\* Paused, and every Pending or Paused item of the list offers both.
C6_RemoveMoveOnlyPendingPaused ==
    /\ sent.cmd \in {"queue_remove", "queue_move_item"}
       => sent.shown \in {"Pending", "Paused"} /\ sent.actual \in {"Pending", "Paused"}
    /\ \A i \in DOMAIN queue :
          queue[i].status \in {"Pending", "Paused"}
          => ShowsRemove(queue[i]) /\ ShowsMove(queue[i])

Range(f) == {f[k] : k \in DOMAIN f}

\* C7: a reordering decides the admission order (of two Pending items the
\* one the backend's list has first is admitted first), and a move command
\* leaves every Downloading item's status, progress and position as they are.
C7_AdmissionFollowsMoves ==
    [][/\ /\ StartIssued
          /\ sent'.actual = "Pending"
          => \A r \in runs' : sent'.head \in Range(r.pendingItems) => sent'.head = sent'.id
       /\ sent'.cmd = "queue_move_item"
          => \A i \in DOMAIN backend :
                backend[i].status = "Downloading"
                => i \in DOMAIN backend' /\ backend'[i] = backend[i]
      ]_vars

IsPrefix(a, b) == Len(a) <= Len(b) /\ SubSeq(b, 1, Len(a)) = a

\* The step hands the oldest queue-progress event to the listener.
Delivered == events # <<>> /\ IsPrefix(Tail(events), events') /\ ~IsPrefix(events, events')

\* The step takes over the list of a queue_get_items answer that shows id as st.
Reloaded(id, st) ==
    \E s \in snaps : s \notin snaps' /\ queue' = s.items /\ StatusIn(s.items, id) = st

\* C8: cancellation is never applied optimistically: cancelQueueItem changes
\* no item of the list, an item comes to be shown as Cancelled only in the
\* step that delivers a queue-progress event or a reloaded list reporting it
\* Cancelled, and a queue_cancel call that fails leaves the list as it was.
C8_CancelOnAcknowledgment ==
    [][/\ sent'.cmd = "queue_cancel" => queue' = queue
       /\ \A id \in IdSet :
             StatusIn(queue', id) = "Cancelled" /\ StatusIn(queue, id) # "Cancelled"
             => \/ /\ Delivered
                   /\ Head(events).id = id
                   /\ Head(events).status = "Cancelled"
                \/ Reloaded(id, "Cancelled")
       /\ \A c \in calls \ calls' :
             c.op = "queue_cancel" => /\ queue' = queue
                                      /\ ~c.ok => snaps' = snaps
      ]_vars

\* A cancel has been acknowledged: the list shows an item as Cancelled.
C8_Witness == \E id \in IdSet : StatusIn(queue, id) = "Cancelled"

\* C9: handling a queue-progress event for id X (one that reports Completed,
\* Failed or Cancelled included) leaves the number and the order of the items
\* and every item other than X as they were, and of X it changes nothing but
\* status, progress, speed, eta and file_path.
C9_ProgressFrame ==
    [][Delivered =>
          /\ Len(queue') = Len(queue)
          /\ \A i \in DOMAIN queue :
                /\ queue'[i].id = queue[i].id
                /\ queue'[i].error = queue[i].error
                /\ queue[i].id # Head(events).id => queue'[i] = queue[i]
      ]_vars

\* The list keeps an item whose completion an event has reported.
C9_Witness ==
    \E id \in IdSet : StatusIn(queue, id) = "Completed" /\ shown[id].by = "event"

\* C10: once the list shows an item as Cancelled, no queue-progress event
\* delivered later changes its status, progress, speed or eta.
C10_NoProgressAfterCancel ==
    [][\A i \in DOMAIN queue :
          /\ queue[i].status = "Cancelled"
          /\ Delivered
          /\ Head(events).id = queue[i].id
          => /\ i \in DOMAIN queue'
             /\ queue'[i].status = queue[i].status
             /\ queue'[i].progress = queue[i].progress
             /\ queue'[i].speed = queue[i].speed
             /\ queue'[i].eta = queue[i].eta
      ]_vars

\* C11: whenever a task turns Failed the error is recorded on its queue item:
\* in every state, an item whose status is Failed has a non-null error.
C11_FailedHasError ==
    \A i \in DOMAIN queue : queue[i].status = "Failed" => queue[i].error # NULL

C13_EtaFromSpeed ==
    isDownloading =>
        /\ downloadSpeed > 0 /\ totalBytes > 0
           => /\ eta # NoEta
              /\ eta.num * downloadSpeed = (totalBytes - downloadedBytes) * eta.den
        /\ downloadSpeed = 0 \/ totalBytes = 0 => eta = NoEta

\* The step takes a speed sample: lastProgressUpdate moves from one record
\* to the next.
SampleTaken ==
    /\ lastProgressUpdate # NoUpdate
    /\ lastProgressUpdate' # NoUpdate
    /\ lastProgressUpdate' # lastProgressUpdate

\* The sample: the byte difference over the time difference, in bytes per second.
Sample ==
    ((lastProgressUpdate'.bytes - lastProgressUpdate.bytes) * 1000)
        \div (lastProgressUpdate'.time - lastProgressUpdate.time)

\* C14 as claimed: each time a sample is taken the displayed speed becomes
\* 0.3 x sample + 0.7 x previous displayed speed.
C14_AlwaysSmoothed ==
    [][SampleTaken => downloadSpeed' * 10 = 3 * Sample + 7 * downloadSpeed]_vars

\* C14, amended: each time a sample is taken the displayed speed becomes the
\* sample itself when the previous displayed speed is 0, and 0.3 x sample +
\* 0.7 x previous displayed speed otherwise.
C14_SmoothedUnlessZero ==
    [][SampleTaken =>
          IF downloadSpeed = 0
          THEN downloadSpeed' = Sample
          ELSE downloadSpeed' * 10 = 3 * Sample + 7 * downloadSpeed]_vars

\* A displayed speed that only a smoothing of two different values yields.
C14_Witness == isDownloading /\ downloadSpeed > 0 /\ downloadSpeed % 1000 # 0

\* C15: every download_video call that succeeds is followed by exactly one
\* add_to_history, issued when handleDownload resumes, a call that fails by
\* none, and add_to_history is issued nowhere else; every transfer that
\* completes resolves one download_video call.
C15_OneHistoryRecord ==
    [][/\ \A c \in calls \ calls' :
             c.op = "download_video" => (c.ok <=> sent'.cmd = "add_to_history")
       /\ sent'.cmd = "add_to_history"
          => \E c \in calls \ calls' : c.op = "download_video" /\ c.ok
       /\ task.active /\ ~task'.active /\ status' = "completed"
          => Cardinality({c \in calls' \ calls : c.op = "download_video" /\ c.ok}) = 1
      ]_vars

\* The record of a completed download has just been emitted.
C15_Witness == sent.cmd = "add_to_history" /\ progress = 100

C20_ClipboardOnlyIntoEmptyField ==
    [][reads' < reads /\ url' # url
       => url = "" /\ ~isDownloading /\ ~isFetchingInfo]_vars

\* Nothing is in flight: no event, no answer, no suspended handler or run.
Quiet == events = <<>> /\ snaps = {} /\ calls = {} /\ runs = {}

\* C17: with auto_start_queue on, a Pending item and a free slot,
\* queue_start_download is eventually issued without further user action:
\* the App never comes to rest (nothing in flight, no download running that
\* could still report) with auto-start on and an item that is Pending, in
\* the backend and in the list, waiting.
C17_NoIdlePending ==
    ~(/\ settings.auto_start_queue
      /\ Quiet
      /\ ActiveCount(backend) = 0
      /\ \E id \in IdSet : StatusIn(backend, id) = "Pending" /\ StatusIn(queue, id) = "Pending")

\* The step is one in which the user presses Start Queue: nothing arrives and
\* no handler resumes.
StartQueuePressed == calls' = calls /\ snaps' = snaps /\ queue' = queue /\ ~Delivered

\* resumeQueueItem resumes after a successful queue_resume.
ResumeSettled == \E c \in calls \ calls' : c.op = "queue_resume" /\ c.ok

\* C18 as claimed: with auto_start_queue off, a processQueue run (and with it
\* any queue_start_download) begins only when the user presses Start Queue.
C18_OnlyStartQueue ==
    [][~settings.auto_start_queue /\ (\E r \in runs' : RunBegins(r))
       => StartQueuePressed]_vars

\* C18, amended: with auto_start_queue off, no queue_start_download is issued
\* as a side effect of adding an item, of a queue-progress event or of a
\* reloaded list; a run begins only when the user presses Start Queue or when
\* resumeQueueItem (Resume, Retry) continues after a successful queue_resume.
C18_StartQueueOrResume ==
    [][/\ ~settings.auto_start_queue /\ (\E r \in runs' : RunBegins(r))
          => StartQueuePressed \/ ResumeSettled
       /\ ~settings.auto_start_queue /\ StartIssued
          => \E r \in runs' : RunBegins(r) \/ RunAdvances(r)
      ]_vars

\* Auto-start is off and a start has been issued while an item that was
\* paused and resumed is downloading.
C18_Witness ==
    /\ ~settings.auto_start_queue
    /\ sent.cmd = "queue_start_download"
    /\ \E id \in IdSet : id # sent.id /\ ver[id] >= 4 /\ StatusIn(backend, id) = "Downloading"

\* C19: addToQueue issues queue_add only with video info, and issues nothing
\* and logs an error without; when queue_add fails the form stays as it is
\* and nothing is started; the form is cleared only when queue_add has
\* succeeded (or, the video info, by a new fetch).
C19_AddToQueue ==
    [][/\ sent'.cmd = "queue_add" => videoInfo # NoVideoInfo /\ Form' = Form
       /\ sent' = Logged("error", "Please fetch video info first")
          => videoInfo = NoVideoInfo /\ backend' = backend /\ calls' = calls /\ Form' = Form
       /\ \A c \in calls \ calls' :
             c.op = "queue_add" =>
                IF c.ok
                THEN url' = "" /\ videoInfo' = NoVideoInfo /\ filename' = <<>>
                ELSE /\ Form' = Form
                     /\ sent' = Logged("error", "Failed to add to queue")
                     /\ runs' = runs
                     /\ snaps' = snaps
                     /\ backend' = backend
       /\ videoInfo # NoVideoInfo /\ videoInfo' = NoVideoInfo
          => \/ \E c \in calls \ calls' : c.op = "queue_add" /\ c.ok
             \/ ~isFetchingInfo /\ isFetchingInfo'
      ]_vars

\* A failed queue_add has been logged and the form still holds the video info.
C19_Witness == sent = Logged("error", "Failed to add to queue") /\ videoInfo # NoVideoInfo /\ url # ""

\* The download_video calls that have not settled: the running transfer and
\* the answers on their way to handleDownload.
DownloadsInFlight ==
    (IF task.active THEN 1 ELSE 0) + Cardinality({c \in calls : c.op = "download_video"})

\* C21: at most one download_video call is in flight, and as long as a
\* transfer runs the Download button and the Enter shortcut are disabled
\* (isDownloading is set).
C21_OneDownload == DownloadsInFlight <= 1 /\ (task.active => isDownloading)

\* C22: when isDownloading is false after a download attempt, the status is
\* completed or error (idle before the first attempt), never downloading.
C22_StatusSettled == ~isDownloading => status \in {"idle", "completed", "error"}

\* C24: while isDownloading is set, no step changes the URL field or the
\* video info.
C24_FormFrozenWhileDownloading ==
    [][isDownloading => url' = url /\ videoInfo' = videoInfo]_vars
\* C26 as claimed: a delivered event never sets a file_path back to null; one
\* with a null file_path keeps the item's, any other replaces it.
C26_NullKeeps ==
    [][Delivered =>
          \A i \in DOMAIN queue :
             queue[i].id = Head(events).id =>
                /\ queue[i].file_path # NULL => queue'[i].file_path # NULL
                /\ queue'[i].file_path = IF Head(events).file_path = NULL
                                         THEN queue[i].file_path
                                         ELSE Head(events).file_path
      ]_vars

\* C26, amended: a delivered event never sets a file_path back to null; one
\* with a null or empty file_path keeps the item's, one with a non-empty
\* file_path replaces it.
C26_NullOrEmptyKeeps ==
    [][Delivered =>
          \A i \in DOMAIN queue :
             queue[i].id = Head(events).id =>
                /\ queue[i].file_path # NULL => queue'[i].file_path # NULL
                /\ queue'[i].file_path = IF Head(events).file_path \in {NULL, ""}
                                         THEN queue[i].file_path
                                         ELSE Head(events).file_path
      ]_vars

\* An item is shown Completed with the partial file's path: the Completed
\* event carried no path and the earlier one was kept.
C26_Witness ==
    \E i \in DOMAIN queue : queue[i].status = "Completed" /\ queue[i].file_path = "part.mp4"
\* C25: video info that is present was fetched for the URL now in the field,
\* and every queue_add carries a URL that is not empty and is the one its
\* title was resolved for.
C25_InfoMatchesUrl ==
    [][/\ videoInfo' # NoVideoInfo => videoInfo'.url = url'
       /\ sent'.cmd = "queue_add" => sent'.url # "" /\ sent'.url = videoInfo.url
      ]_vars

\* The file name the claim describes for a file name field f and a title t.
C27_Described(f, t) ==
    IF f # <<>> THEN f
    ELSE IF t # <<>>
    THEN [k \in DOMAIN t |-> IF t[k] \in {"<", ">", ":", "\"", "/", "\\", "|", "?", "*"}
                             THEN "_" ELSE t[k]] \o <<".mp4">>
    ELSE <<"video.mp4">>

\* C27: the outputFilename of a queue_add is the file name field when it is
\* not empty, else the title with the forbidden characters replaced and
\* .mp4 appended when the title is not empty, else video.mp4.
C27_OutputFilename ==
    [][sent'.cmd = "queue_add" => sent'.outputFilename = C27_Described(filename, videoInfo.title)]_vars
\* C23: each busy flag that is set is reset again once the calls of its
\* operation have settled, whether they succeeded or failed.
C23_FlagsReleased ==
    /\ isProcessingQueue ~> ~isProcessingQueue
    /\ isFetchingInfo ~> ~isFetchingInfo
    /\ isDownloading ~> ~isDownloading

\* All three flags are free again: a download has failed, an item has been
\* started by a processQueue run, and nothing is pending.
C23_Witness ==
    /\ ~isProcessingQueue /\ ~isFetchingInfo /\ ~isDownloading
    /\ calls = {} /\ runs = {}
    /\ status = "error"
    /\ \E i \in DOMAIN backend : backend[i].status = "Downloading"
====
